---- MODULE Spec2Model ----
(***************************************************************************)
(* Response decoding of tokio-zookeeper (src/proto/response.rs).           *)
(*                                                                         *)
(* A reader is the remaining slice of an in-memory byte buffer             *)
(* (`&mut &[u8]`): a sequence of bytes 0..255.  Every decoder is an        *)
(* operator from a reader to an outcome record                             *)
(*     [kind |-> "Ok",    val |-> v, rest |-> r]     Ok(v), reader left r  *)
(*     [kind |-> "Err",   err |-> e, rest |-> r]     Err(io::Error)        *)
(*     [kind |-> "Panic", msg |-> m, rest |-> r]     the thread panics     *)
(*                                                                         *)
(* Integers wider than 31 bits do not fit the checker's integers, so       *)
(*   i32  is an Int in -2^31 .. 2^31-1,                                    *)
(*   u32  is <<hi, lo>>, two unsigned 16-bit halves (value hi*2^16 + lo),  *)
(*   i64  is <<hi, lo>>, hi the signed upper 32 bits as an i32 and lo the  *)
(*        lower 32 bits as a u32 (value hi*2^32 + lo).                     *)
(* A String is its UTF-8 byte sequence, as in Rust.                        *)
(***************************************************************************)
EXTENDS Integers, Sequences, FiniteSets, TLC

VARIABLES
    input,   \* the buffer handed to the decoder (never changes)
    call,    \* which decoder is invoked on it, [op |-> ...] (+ opcode for parse)
    reader,  \* the reader: the part of the buffer not yet consumed
    pc,      \* "start" | "multi" (inside the loop of the Multi arm) | "done"
    stack,   \* the `responses` vector of every active Multi arm, innermost last
    result   \* the outcome of the call once pc = "done"

vars == <<input, call, reader, pc, stack, result>>

----------------------------------------------------------------------------
(* Sequences and outcomes *)

Take(s, n) == SubSeq(s, 1, n)
Drop(s, n) == SubSeq(s, n + 1, Len(s))

Ok(v, r) == [kind |-> "Ok", val |-> v, rest |-> r]
Err(e, r) == [kind |-> "Err", err |-> e, rest |-> r]
Panic(m, r) == [kind |-> "Panic", msg |-> m, rest |-> r]

\* The process is aborted (SIGABRT): the allocator refused a request
\* (handle_alloc_error) or the native stack is exhausted.  Nothing unwinds
\* and no caller sees a value.
Abort(m, r) == [kind |-> "Abort", msg |-> m, rest |-> r]

\* What the machine the decoder runs on decides: whether the allocator
\* refuses a request it is not sure to grant, and whether the native stack is
\* exhausted by a call it is not sure to hold.
Envs == [allocFails : BOOLEAN, stackOverflows : BOOLEAN]
NoFault == [allocFails |-> FALSE, stackOverflows |-> FALSE]

\* read_exact on a slice with too few bytes left: UnexpectedEof, the slice
\* is left empty.
Eof == Err("UnexpectedEof", <<>>)

----------------------------------------------------------------------------
(* Fixed-width big-endian integers (byteorder::ReadBytesExt on &[u8]) *)

I32(b1, b2, b3, b4) ==
    (IF b1 >= 128 THEN b1 - 256 ELSE b1) * 16777216 + b2 * 65536 + b3 * 256 + b4

U32(b1, b2, b3, b4) == <<b1 * 256 + b2, b3 * 256 + b4>>

read_u8(r) == IF Len(r) < 1 THEN Eof ELSE Ok(r[1], Drop(r, 1))

read_i32(r) ==
    IF Len(r) < 4 THEN Eof ELSE Ok(I32(r[1], r[2], r[3], r[4]), Drop(r, 4))

read_u32(r) ==
    IF Len(r) < 4 THEN Eof ELSE Ok(U32(r[1], r[2], r[3], r[4]), Drop(r, 4))

read_i64(r) ==
    IF Len(r) < 8 THEN Eof
    ELSE Ok(<<I32(r[1], r[2], r[3], r[4]), U32(r[5], r[6], r[7], r[8])>>,
            Drop(r, 8))

----------------------------------------------------------------------------
(* `r#try!(e)` and `e?`: an outcome that is not Ok is returned as it is,    *)
(* an Ok one is handed to the rest of the function, K.                      *)

Try(o, K(_)) == IF o.kind # "Ok" THEN o ELSE K(o)

----------------------------------------------------------------------------
(* BufferReader::read_buffer *)

\* Read::read on a slice: copies min(len, remaining) bytes and reports how many.
SliceRead(r, len) == IF len <= Len(r) THEN len ELSE Len(r)

\* A plausible slip: the bytes that were read are returned even when they are
\* fewer than declared.
ReadDeclaredShort(len, r) ==
    Ok(Take(r, SliceRead(r, len)), Drop(r, SliceRead(r, len)))

\* `let read = self.read(&mut buf)?; if read == len { Ok(buf) } else { Err(..) }`
ReadDeclared(len, r) ==
    IF SliceRead(r, len) = len
    THEN Ok(Take(r, len), Drop(r, len))
    ELSE Err("WouldBlock", Drop(r, SliceRead(r, len)))

read_buffer(r) ==
    Try(read_i32(r), LAMBDA l :
        ReadDeclared(IF l.val < 0 THEN 0 ELSE l.val, l.rest))

----------------------------------------------------------------------------
(* StringReader::read_string: String::from_utf8(raw).unwrap() *)

IsCont(b) == b >= 128 /\ b <= 191

\* Number of bytes of the well-formed UTF-8 sequence at the head of s, 0 when
\* there is none (the validation String::from_utf8 performs).
Utf8Width(s) ==
    LET n  == Len(s)
        b1 == s[1]
        c2 == n >= 2 /\ IsCont(s[2])
        c3 == n >= 3 /\ IsCont(s[3])
        c4 == n >= 4 /\ IsCont(s[4])
    IN  IF b1 <= 127 THEN 1
        ELSE IF b1 >= 194 /\ b1 <= 223 THEN (IF c2 THEN 2 ELSE 0)
        ELSE IF b1 = 224
             THEN (IF n >= 2 /\ s[2] >= 160 /\ s[2] <= 191 /\ c3 THEN 3 ELSE 0)
        ELSE IF (b1 >= 225 /\ b1 <= 236) \/ b1 = 238 \/ b1 = 239
             THEN (IF c2 /\ c3 THEN 3 ELSE 0)
        ELSE IF b1 = 237
             THEN (IF n >= 2 /\ s[2] >= 128 /\ s[2] <= 159 /\ c3 THEN 3 ELSE 0)
        ELSE IF b1 = 240
             THEN (IF n >= 2 /\ s[2] >= 144 /\ s[2] <= 191 /\ c3 /\ c4
                   THEN 4 ELSE 0)
        ELSE IF b1 >= 241 /\ b1 <= 243 THEN (IF c2 /\ c3 /\ c4 THEN 4 ELSE 0)
        ELSE IF b1 = 244
             THEN (IF n >= 2 /\ s[2] >= 128 /\ s[2] <= 143 /\ c3 /\ c4
                   THEN 4 ELSE 0)
        ELSE 0

RECURSIVE IsUtf8(_)
IsUtf8(s) ==
    IF s = <<>> THEN TRUE
    ELSE IF Utf8Width(s) = 0 THEN FALSE
    ELSE IsUtf8(Drop(s, Utf8Width(s)))

\* `.unwrap()` of the Result of String::from_utf8
Unwrap(raw, r) ==
    IF IsUtf8(raw) THEN Ok(raw, r) ELSE Panic("unwrap on FromUtf8Error", r)

read_string(r) == Try(read_buffer(r), LAMBDA raw : Unwrap(raw.val, raw.rest))

----------------------------------------------------------------------------
(* A fixed list of fields read one after another, each under `r#try!`/`?` *)

FieldRead(t, r) ==
    CASE t = "u8"     -> read_u8(r)
      [] t = "i32"    -> read_i32(r)
      [] t = "u32"    -> read_u32(r)
      [] t = "i64"    -> read_i64(r)
      [] t = "buffer" -> read_buffer(r)
      [] t = "string" -> read_string(r)

\* The fields of `types` in order; the first one that fails ends the read.
RECURSIVE ReadFields(_, _)
ReadFields(types, r) ==
    IF types = <<>> THEN Ok(<<>>, r)
    ELSE Try(FieldRead(Head(types), r), LAMBDA h :
         Try(ReadFields(Tail(types), h.rest), LAMBDA t :
             Ok(<<h.val>> \o t.val, t.rest)))

----------------------------------------------------------------------------
(* impl ReadFrom for Stat *)

\* A plausible slip: version and cversion taken in the other order.
Stat_read_from_swapped(r) ==
    Try(ReadFields(<<"i64", "i64", "i64", "i64", "i32", "i32", "i32",
                     "i64", "i32", "i32", "i64">>, r), LAMBDA f :
        Ok([czxid |-> f.val[1], mzxid |-> f.val[2], ctime |-> f.val[3],
            mtime |-> f.val[4], version |-> f.val[6], cversion |-> f.val[5],
            aversion |-> f.val[7], ephemeral_owner |-> f.val[8],
            data_length |-> f.val[9], num_children |-> f.val[10],
            pzxid |-> f.val[11]], f.rest))

Stat_read_from(r) ==
    Try(ReadFields(<<"i64", "i64", "i64", "i64", "i32", "i32", "i32",
                     "i64", "i32", "i32", "i64">>, r), LAMBDA f :
        Ok([czxid |-> f.val[1], mzxid |-> f.val[2], ctime |-> f.val[3],
            mtime |-> f.val[4], version |-> f.val[5], cversion |-> f.val[6],
            aversion |-> f.val[7], ephemeral_owner |-> f.val[8],
            data_length |-> f.val[9], num_children |-> f.val[10],
            pzxid |-> f.val[11]], f.rest))

----------------------------------------------------------------------------
(* impl ReadFrom for WatchedEvent *)

\* WatchedEventType::from and KeeperState::from map the number of the
\* enumeration to its member.
WatchedEventType_from(wtype) == wtype
KeeperState_from(state) == state

WatchedEvent_read_from(r) ==
    Try(ReadFields(<<"i32", "i32", "string">>, r), LAMBDA f :
        Ok([event_type |-> WatchedEventType_from(f.val[1]),
            keeper_state |-> KeeperState_from(f.val[2]),
            path |-> f.val[3]], f.rest))

----------------------------------------------------------------------------
(* impl ReadFrom for Permission, Acl *)

\* Permission::from_raw keeps the raw bits.
Permission_from_raw(raw) == raw

Permission_read_from(r) ==
    Try(read_u32(r), LAMBDA p : Ok(Permission_from_raw(p.val), p.rest))

Acl_read_from(r) ==
    Try(Permission_read_from(r), LAMBDA perms :
    Try(ReadFields(<<"string", "string">>, perms.rest), LAMBDA f :
        Ok([perms |-> perms.val, scheme |-> f.val[1], id |-> f.val[2]], f.rest)))

----------------------------------------------------------------------------
(* impl ReadFrom for Vec<String>, Vec<Acl> *)

\* Vec::with_capacity(len as usize): a negative len is a capacity beyond
\* isize::MAX bytes, and with_capacity panics.
CapacityOverflows(len) == len < 0

\* size_of::<String>() and size_of::<Acl>() on a 64-bit target
SizeOfString == 24
SizeOfAcl == 56

\* The bytes a single request to the allocator is sure to get.  A request of
\* 2^31 - 1 bytes (the vec![0; len] of read_buffer at its largest) is granted
\* on the machines the decoder was run on; one of 24 GiB is refused there.
SureAlloc == 2147483647

\* with_capacity(len) of elements of the given size asks for len * size
\* bytes before any element is read; beyond SureAlloc the request is granted
\* or the process is aborted, as the machine has it.
MayFailToAllocate(len, size) == len > SureAlloc \div size

WithCapacity(len, size, r, env, K(_)) ==
    IF CapacityOverflows(len) THEN Panic("capacity overflow", r)
    ELSE IF MayFailToAllocate(len, size) /\ env.allocFails
         THEN Abort("memory allocation failed", r)
         ELSE K(r)

\* `for _ in 0..len { items.push(read_string()?) }`
RECURSIVE ReadStrings(_, _)
ReadStrings(len, r) ==
    IF len <= 0 THEN Ok(<<>>, r)
    ELSE Try(read_string(r), LAMBDA h :
         Try(ReadStrings(len - 1, h.rest), LAMBDA t :
             Ok(<<h.val>> \o t.val, t.rest)))

VecString_read_from(r, env) ==
    Try(read_i32(r), LAMBDA len :
        WithCapacity(len.val, SizeOfString, len.rest, env,
                     LAMBDA rest : ReadStrings(len.val, rest)))

\* `for _ in 0..len { items.push(Acl::read_from(read)?) }`
RECURSIVE ReadAcls(_, _)
ReadAcls(len, r) ==
    IF len <= 0 THEN Ok(<<>>, r)
    ELSE Try(Acl_read_from(r), LAMBDA h :
         Try(ReadAcls(len - 1, h.rest), LAMBDA t :
             Ok(<<h.val>> \o t.val, t.rest)))

VecAcl_read_from(r, env) ==
    Try(read_i32(r), LAMBDA len :
        WithCapacity(len.val, SizeOfAcl, len.rest, env,
                     LAMBDA rest : ReadAcls(len.val, rest)))

----------------------------------------------------------------------------
(* Operation codes (enum OpCode) and the conversions from the wire *)

Notification == 0
Create == 1
Delete == 2
Exists == 3
GetData == 4
SetData == 5
GetACL == 6
SetACL == 7
GetChildren == 8
Synchronize == 9
Ping == 11
GetChildren2 == 12
Check == 13
Multi == 14
Auth == 100
SetWatches == 101
Sasl == 102
CreateSession == -10
CloseSession == -11
Error == -1

OpCodes ==
    {Notification, Create, Delete, Exists, GetData, SetData, GetACL, SetACL,
     GetChildren, Synchronize, Ping, GetChildren2, Check, Multi, Auth,
     SetWatches, Sasl, CreateSession, CloseSession, Error}

\* The opcodes Response::parse has an arm for.
Supported ==
    {CreateSession, Exists, SetData, SetACL, GetData, Delete, GetChildren,
     Create, GetACL, Check, Multi}

\* `opcode.into()`: the frame's opcode field is carried as the nested opcode.
OpCode_from(code) == code

\* `err.into()`: the frame's error field is carried as the entry's error.
ZkError_from(code) == code

----------------------------------------------------------------------------
(* impl ReadFrom for MultiHeader *)

\* A plausible slip: the opcode is looked at before the done flag.
HeaderOfOpcodeFirst(opcode, done, err) ==
    IF opcode = -1 THEN [kind |-> "NextErr", err |-> ZkError_from(err)]
    ELSE IF done THEN [kind |-> "Done"]
    ELSE [kind |-> "NextOk", opcode |-> OpCode_from(opcode)]

\* `if done { Done } else if opcode == -1 { NextErr(err) } else { NextOk(opcode) }`
HeaderOf(opcode, done, err) ==
    IF done THEN [kind |-> "Done"]
    ELSE IF opcode = -1 THEN [kind |-> "NextErr", err |-> ZkError_from(err)]
    ELSE [kind |-> "NextOk", opcode |-> OpCode_from(opcode)]

MultiHeader_read_from(r) ==
    Try(ReadFields(<<"i32", "u8", "i32">>, r), LAMBDA f :
        Ok(HeaderOf(f.val[1], f.val[2] # 0, f.val[3]), f.rest))

----------------------------------------------------------------------------
(* Response::parse, every arm but Multi *)

ParseConnect(r) ==
    Try(ReadFields(<<"i32", "i32", "i64", "buffer", "u8">>, r), LAMBDA f :
        Ok([tag |-> "Connect", protocol_version |-> f.val[1],
            timeout |-> f.val[2], session_id |-> f.val[3],
            password |-> f.val[4], read_only |-> f.val[5] # 0], f.rest))

ParseStat(r) ==
    Try(Stat_read_from(r), LAMBDA s : Ok([tag |-> "Stat", stat |-> s.val], s.rest))

ParseGetData(r) ==
    Try(read_buffer(r), LAMBDA b :
    Try(Stat_read_from(b.rest), LAMBDA s :
        Ok([tag |-> "GetData", bytes |-> b.val, stat |-> s.val], s.rest)))

ParseGetChildren(r, env) ==
    Try(VecString_read_from(r, env), LAMBDA v :
        Ok([tag |-> "Strings", items |-> v.val], v.rest))

ParseCreate(r) ==
    Try(read_string(r), LAMBDA s : Ok([tag |-> "String", string |-> s.val], s.rest))

ParseGetAcl(r, env) ==
    Try(VecAcl_read_from(r, env), LAMBDA a :
    Try(Stat_read_from(a.rest), LAMBDA s :
        Ok([tag |-> "GetAcl", acl |-> a.val, stat |-> s.val], s.rest)))

\* Response::parse(opcode, reader) for opcode # Multi.
ParseLeaf(opcode, r, env) ==
    CASE opcode = CreateSession -> ParseConnect(r)
      [] opcode \in {Exists, SetData, SetACL} -> ParseStat(r)
      [] opcode = GetData -> ParseGetData(r)
      [] opcode = Delete -> Ok([tag |-> "Empty"], r)
      [] opcode = GetChildren -> ParseGetChildren(r, env)
      [] opcode = Create -> ParseCreate(r)
      [] opcode = GetACL -> ParseGetAcl(r, env)
      [] opcode = Check -> Ok([tag |-> "Empty"], r)
      [] OTHER -> Panic("got unexpected response opcode", r)

----------------------------------------------------------------------------
(* Response::parse, the Multi arm: one iteration of its loop.  A machine    *)
(* state is [pc, reader, stack, result]; stack holds the `responses` of     *)
(* every parse(Multi) call that is active, the innermost last.              *)

NoResult == [kind |-> "None"]

Running(r, st) == [pc |-> "multi", reader |-> r, stack |-> st, result |-> NoResult]

\* The outermost call returns o (or unwinds with it): every `responses`
\* vector still on the stack is dropped.
Finished(o) == [pc |-> "done", reader |-> o.rest, stack |-> <<>>, result |-> o]

\* `?` inside the loop: an outcome that is not Ok ends every active call.
TryLoop(o, K(_)) == IF o.kind # "Ok" THEN Finished(o) ELSE K(o)

EntryOk(resp) == [ok |-> TRUE, val |-> resp]
EntryErr(e) == [ok |-> FALSE, err |-> e]

\* responses.push(e) in the innermost active call
Push(st, e) == [st EXCEPT ![Len(st)] = Append(@, e)]

\* A plausible slip: the padding slot of a failed entry is left unread.
ArmNextErrNoPad(e, r, st) == Running(r, Push(st, EntryErr(e)))

\* A plausible slip: a failed entry is put in front of the earlier ones.
ArmNextErrFront(e, r, st) ==
    TryLoop(read_i32(r), LAMBDA pad :
        Running(pad.rest, [st EXCEPT ![Len(st)] = <<EntryErr(e)>> \o @]))

ArmNextErr(e, r, st) ==
    TryLoop(read_i32(r), LAMBDA pad : Running(pad.rest, Push(st, EntryErr(e))))

\* The active calls of Response::parse the native stack is sure to hold.
\* Every active parse(Multi) is a frame of it; how many more it holds is up
\* to the build and to the stack of the thread.
SureDepth == 64

\* `Response::parse(opcode, reader)?` is a call on the native stack, made
\* from inside Len(st) active calls of parse(Multi).
StackMayOverflow(st) == Len(st) >= SureDepth

ArmNextOk(opcode, r, st, env) ==
    IF StackMayOverflow(st) /\ env.stackOverflows
    THEN Finished(Abort("stack overflow", r))
    ELSE IF opcode = Multi THEN Running(r, Append(st, <<>>))
    ELSE TryLoop(ParseLeaf(opcode, r, env), LAMBDA n :
             Running(n.rest, Push(st, EntryOk(n.val))))

\* The `responses` of the innermost call become its Response::Multi, which
\* is the result of the whole call or the next entry of the enclosing batch.
ArmDone(r, st) ==
    IF Len(st) = 1
    THEN Finished(Ok([tag |-> "Multi", responses |-> st[1]], r))
    ELSE Running(r, Push(SubSeq(st, 1, Len(st) - 1),
                         EntryOk([tag |-> "Multi", responses |-> st[Len(st)]])))

MultiArm(h, r, st, env) ==
    CASE h.kind = "NextErr" -> ArmNextErr(h.err, r, st)
      [] h.kind = "NextOk"  -> ArmNextOk(h.opcode, r, st, env)
      [] h.kind = "Done"    -> ArmDone(r, st)

MultiIter(r, st, env) ==
    TryLoop(MultiHeader_read_from(r), LAMBDA h : MultiArm(h.val, h.rest, st, env))

----------------------------------------------------------------------------
(* The wire format, written: what a server puts in a reply *)

WriteI32(v) ==
    LET low == IF v < 0 THEN (v + 2147483647) + 1 ELSE v
        top == (IF v < 0 THEN 128 ELSE 0) + (low \div 16777216)
    IN  <<top, (low \div 65536) % 256, (low \div 256) % 256, low % 256>>

WriteU32(v) == <<v[1] \div 256, v[1] % 256, v[2] \div 256, v[2] % 256>>

WriteI64(v) == WriteI32(v[1]) \o WriteU32(v[2])

WriteBuffer(b) == WriteI32(Len(b)) \o b

WriteStat(s) ==
    WriteI64(s.czxid) \o WriteI64(s.mzxid) \o WriteI64(s.ctime)
    \o WriteI64(s.mtime) \o WriteI32(s.version) \o WriteI32(s.cversion)
    \o WriteI32(s.aversion) \o WriteI64(s.ephemeral_owner)
    \o WriteI32(s.data_length) \o WriteI32(s.num_children)
    \o WriteI64(s.pzxid)

WriteAcl(a) == WriteU32(a.perms) \o WriteBuffer(a.scheme) \o WriteBuffer(a.id)

WriteFrame(opcode, done, err) == WriteI32(opcode) \o <<done>> \o WriteI32(err)

RECURSIVE Concat(_)
Concat(ss) == IF ss = <<>> THEN <<>> ELSE Head(ss) \o Concat(Tail(ss))

\* A batch entry as the server sends it: a failed entry (error frame and the
\* padding slot, which repeats the code), or a succeeded one (frame and the
\* nested reply `body`; a nested batch has `body` = WriteBatch of its entries).
WriteEntry(e) ==
    IF e.ok THEN WriteFrame(e.opcode, 0, 0) \o e.body
    ELSE WriteFrame(-1, 0, e.err) \o WriteI32(e.err)

Terminator == WriteFrame(-1, 1, -1)

WriteBatch(es) == Concat([i \in 1..Len(es) |-> WriteEntry(es[i])]) \o Terminator

----------------------------------------------------------------------------
(* Bounds of the inputs *)

MaxBlob == 2      \* bytes that follow a length prefix in the blob inputs
MaxItems == 2     \* elements of a sequence input
MaxEntries == 3   \* frames of a batch input, the closing frame not counted
MaxCut == 3       \* bytes a truncated input misses at its end

----------------------------------------------------------------------------
(* Inputs *)

SeqsUpTo(S, n) == UNION {[1..k -> S] : k \in 0..n}

\* s without its last k bytes, for every k up to MaxCut
Cuts(s) == {Take(s, Len(s) - k) : k \in 0..(IF MaxCut < Len(s) THEN MaxCut ELSE Len(s))}

CutAll(S) == UNION {Cuts(s) : s \in S}

\* '/', 'a', the two bytes of U+00E9, and a byte no UTF-8 text holds
BlobBytes == {47, 97, 195, 169, 255}

Lens == {-5, -1, 2147483647} \cup 0..(MaxBlob + 1)

BlobInputs ==
    SeqsUpTo({0}, 3)
    \cup {WriteI32(l) \o b : l \in Lens, b \in SeqsUpTo(BlobBytes, MaxBlob)}

\* "a", "/a/b", and an ill-formed one
StringSamples == {<<97>>, <<47, 97, 47, 98>>, <<255>>}

\* Counts no input is long enough for: 2^31 - 1 and 2^30
HugeCounts == {2147483647, 1073741824}

VecStringInputs ==
    CutAll({WriteI32(n) \o Concat([i \in 1..Len(ss) |-> WriteBuffer(ss[i])]) :
                n \in {-1} \cup 0..MaxItems, ss \in SeqsUpTo(StringSamples, MaxItems)})
    \cup {WriteI32(n) \o t : n \in HugeCounts, t \in {<<>>, WriteBuffer(<<97>>)}}

\* NodeCreated and NodeDataChanged seen by a SyncConnected session
WatchedEventInputs ==
    CutAll({WriteI32(t) \o WriteI32(3) \o WriteBuffer(p) :
                t \in {1, 3}, p \in StringSamples})

\* world:anyone with all five permissions, ip:"a" with READ, and an ill-formed id
AclSamples ==
    {[perms |-> <<0, 31>>, scheme |-> <<119, 111, 114, 108, 100>>,
      id |-> <<97, 110, 121, 111, 110, 101>>],
     [perms |-> <<32768, 1>>, scheme |-> <<105, 112>>, id |-> <<97>>],
     [perms |-> <<0, 1>>, scheme |-> <<105, 112>>, id |-> <<255>>]}

WriteAcls(n, as) == WriteI32(n) \o Concat([i \in 1..Len(as) |-> WriteAcl(as[i])])

VecAclInputs ==
    CutAll({WriteAcls(n, as) :
                n \in {-1} \cup 0..MaxItems, as \in SeqsUpTo(AclSamples, MaxItems)})
    \cup {WriteI32(n) : n \in HugeCounts}

StatSamples ==
    {[czxid |-> <<0, <<0, 1>>>>, mzxid |-> <<0, <<0, 2>>>>,
      ctime |-> <<371, <<34952, 3>>>>, mtime |-> <<371, <<34952, 4>>>>,
      version |-> 5, cversion |-> 6, aversion |-> 7,
      ephemeral_owner |-> <<0, <<0, 0>>>>, data_length |-> 9,
      num_children |-> 10, pzxid |-> <<0, <<0, 11>>>>],
     [czxid |-> <<-1, <<65535, 65535>>>>, mzxid |-> <<2147483647, <<65535, 65534>>>>,
      ctime |-> <<-2147483647 - 1, <<0, 0>>>>, mtime |-> <<1, <<2, 3>>>>,
      version |-> -1, cversion |-> 2147483647, aversion |-> -2147483647 - 1,
      ephemeral_owner |-> <<16777217, <<43981, 4660>>>>, data_length |-> 0,
      num_children |-> 256, pzxid |-> <<0, <<32768, 0>>>>]}

StatInputs == CutAll({WriteStat(s) \o t : s \in StatSamples, t \in {<<>>, <<7>>}})

GetDataInputs ==
    CutAll({WriteI32(l) \o b \o WriteStat(s) :
                l \in {-1, 0, 2}, b \in {<<>>, <<1, 2>>}, s \in StatSamples})

GetAclInputs ==
    CutAll({WriteAcls(n, as) \o WriteStat(s) :
                n \in {-1} \cup 0..1, as \in SeqsUpTo(AclSamples, 1), s \in StatSamples})

ConnectInputs ==
    CutAll({WriteI32(0) \o WriteI32(30000) \o WriteI64(sid) \o WriteBuffer(pw) \o ro :
                sid \in {<<0, <<0, 0>>>>, <<371, <<34952, 3>>>>},
                pw \in {<<>>, <<1, 2, 3>>}, ro \in {<<0>>, <<1>>, <<2>>}})

FrameInputs ==
    CutAll({WriteFrame(op, d, e) \o t :
                op \in {-1, Create, Delete, Ping, Multi, 99}, d \in {0, 1, 2, 255},
                e \in {0, -101, -103}, t \in {<<>>, <<7>>}})

\* The pieces batch inputs are put together from: a failed entry, succeeded
\* Delete, Create ("/a", and an ill-formed string), SetData, an entry of an
\* opcode parse has no arm for, the opening of a nested batch, and the
\* closing frame.
BatchPieces ==
    {WriteFrame(-1, 0, -101) \o WriteI32(-101),
     WriteFrame(Delete, 0, 0),
     WriteFrame(Create, 0, 0) \o WriteBuffer(<<47, 97>>),
     WriteFrame(Create, 0, 0) \o WriteBuffer(<<255>>),
     WriteFrame(SetData, 0, 0) \o WriteStat(CHOOSE s \in StatSamples : s.version = 5),
     WriteFrame(Ping, 0, 0),
     WriteFrame(Multi, 0, 0),
     Terminator}

\* Batches nested deeper than SureDepth, none of them closed
DeepBatch == Concat([i \in 1..(SureDepth + 2) |-> WriteFrame(Multi, 0, 0)])

\* A succeeded Delete, then a children list or an ACL of a huge count
HugeEntries ==
    {WriteFrame(Delete, 0, 0) \o WriteFrame(op, 0, 0) \o WriteI32(n) :
        op \in {GetChildren, GetACL}, n \in HugeCounts}

MultiInputs ==
    CutAll({Concat(ps) \o t : ps \in SeqsUpTo(BatchPieces, MaxEntries),
                              t \in {<<>>, Terminator}})
    \cup {DeepBatch} \cup HugeEntries

Calls ==
    {[op |-> o] : o \in {"read_buffer", "read_string", "VecString", "VecAcl",
                         "WatchedEvent", "Stat", "MultiHeader"}}
    \cup {[op |-> "parse", opcode |-> c] : c \in OpCodes}

InputsFor(c) ==
    CASE c.op \in {"read_buffer", "read_string"} -> BlobInputs
      [] c.op = "VecString" -> VecStringInputs
      [] c.op = "VecAcl" -> VecAclInputs
      [] c.op = "WatchedEvent" -> WatchedEventInputs
      [] c.op = "Stat" -> StatInputs
      [] c.op = "MultiHeader" -> FrameInputs
      [] c.op = "parse" ->
            CASE c.opcode = CreateSession -> ConnectInputs
              [] c.opcode \in {Exists, SetData, SetACL} -> StatInputs
              [] c.opcode = GetData -> GetDataInputs
              [] c.opcode = GetChildren -> VecStringInputs
              [] c.opcode = Create -> BlobInputs
              [] c.opcode = GetACL -> GetAclInputs
              [] c.opcode = Multi -> MultiInputs
              [] OTHER -> SeqsUpTo({0}, 3) \cup StatInputs

----------------------------------------------------------------------------
(* The decoder at work on one input *)

Init ==
    /\ call \in Calls
    /\ input \in InputsFor(call)
    /\ reader = input
    /\ pc = "start"
    /\ stack = <<>>
    /\ result = NoResult

\* The call returns (or panics with) outcome o.
Return(o) ==
    /\ pc' = "done"
    /\ result' = o
    /\ reader' = o.rest
    /\ stack' = <<>>
    /\ UNCHANGED <<input, call>>

CallReadBuffer == pc = "start" /\ call.op = "read_buffer" /\ Return(read_buffer(reader))

CallReadString == pc = "start" /\ call.op = "read_string" /\ Return(read_string(reader))

CallVecString ==
    /\ pc = "start" /\ call.op = "VecString"
    /\ \E env \in Envs : Return(VecString_read_from(reader, env))

CallVecAcl ==
    /\ pc = "start" /\ call.op = "VecAcl"
    /\ \E env \in Envs : Return(VecAcl_read_from(reader, env))

CallWatchedEvent ==
    pc = "start" /\ call.op = "WatchedEvent" /\ Return(WatchedEvent_read_from(reader))

CallStat == pc = "start" /\ call.op = "Stat" /\ Return(Stat_read_from(reader))

CallMultiHeader ==
    pc = "start" /\ call.op = "MultiHeader" /\ Return(MultiHeader_read_from(reader))

\* Response::parse(opcode, reader) with an opcode other than Multi
CallParse ==
    /\ pc = "start" /\ call.op = "parse" /\ call.opcode # Multi
    /\ \E env \in Envs : Return(ParseLeaf(call.opcode, reader, env))

\* Response::parse(Multi, reader) up to its loop
CallParseMulti ==
    /\ pc = "start" /\ call.op = "parse" /\ call.opcode = Multi
    /\ pc' = "multi"
    /\ stack' = << <<>> >>
    /\ UNCHANGED <<input, call, reader, result>>

\* One iteration of the loop of the innermost parse(Multi)
Becomes(n) ==
    /\ pc' = n.pc
    /\ reader' = n.reader
    /\ stack' = n.stack
    /\ result' = n.result
    /\ UNCHANGED <<input, call>>

MultiStep == pc = "multi" /\ \E env \in Envs : Becomes(MultiIter(reader, stack, env))

Next ==
    \/ CallReadBuffer
    \/ CallReadString
    \/ CallVecString
    \/ CallVecAcl
    \/ CallWatchedEvent
    \/ CallStat
    \/ CallMultiHeader
    \/ CallParse
    \/ CallParseMulti
    \/ MultiStep

Spec == Init /\ [][Next]_vars

----------------------------------------------------------------------------
(* What the properties below read off an input *)

ParseMulti == [op |-> "parse", opcode |-> Multi]

\* The three fields of the 9-byte frame at the head of r
FrameOpcode(r) == I32(r[1], r[2], r[3], r[4])
FrameDone(r) == r[5]
FrameErr(r) == I32(r[6], r[7], r[8], r[9])

\* Batch entries a server may send, with the reply each one decodes to
Failed(e) == [ok |-> FALSE, err |-> e]
Succeeded(opcode, body, resp) ==
    [ok |-> TRUE, opcode |-> opcode, body |-> body, resp |-> resp]

Decoded(e) == IF e.ok THEN EntryOk(e.resp) ELSE EntryErr(e.err)
DecodedAll(es) == [i \in 1..Len(es) |-> Decoded(es[i])]

Nested(es) ==
    Succeeded(Multi, WriteBatch(es), [tag |-> "Multi", responses |-> DecodedAll(es)])

SucceededDelete == Succeeded(Delete, <<>>, [tag |-> "Empty"])
SucceededCreate ==
    Succeeded(Create, WriteBuffer(<<47, 97>>), [tag |-> "String", string |-> <<47, 97>>])
SucceededSetData ==
    LET s == CHOOSE x \in StatSamples : x.version = 5
    IN  Succeeded(SetData, WriteStat(s), [tag |-> "Stat", stat |-> s])

WellFormedEntries ==
    {Failed(-101), SucceededDelete, SucceededCreate, SucceededSetData,
     Nested(<<>>), Nested(<<SucceededDelete>>)}

\* Every well-formed batch of up to MaxEntries entries: <<its bytes, the
\* entries its decoding must give>>
WellFormedBatches ==
    {<<WriteBatch(es), DecodedAll(es)>> : es \in SeqsUpTo(WellFormedEntries, MaxEntries)}

WellFormedWire == {b[1] : b \in WellFormedBatches}

----------------------------------------------------------------------------
(* C1: Response::parse with an opcode it has no arm for, at top level or as *)
(* the nested opcode of a succeeded batch entry, returns a decode failure;  *)
(* it never panics.                                                         *)
C1_UnsupportedOpcodeIsAFailure ==
    (pc = "done" /\ call.op = "parse") =>
        /\ call.opcode \notin Supported => result.kind = "Err"
        /\ ~(result.kind = "Panic" /\ result.msg = "got unexpected response opcode")

(* C2: read_string of a blob that is read in full and is not valid UTF-8    *)
(* returns a decode error, called on its own or for the path of a           *)
(* WatchedEvent; it never panics.                                           *)
C2_InvalidUtf8IsAFailure ==
    /\ (/\ pc = "done" /\ call.op = "read_string"
        /\ read_buffer(input).kind = "Ok"
        /\ ~IsUtf8(read_buffer(input).val)) => result.kind = "Err"
    /\ (/\ pc = "done" /\ call.op = "WatchedEvent" /\ Len(input) >= 8
        /\ read_buffer(Drop(input, 8)).kind = "Ok"
        /\ ~IsUtf8(read_buffer(Drop(input, 8)).val)) => result.kind = "Err"

(* C3: a complete 9-byte frame decodes as Done whenever its done byte is    *)
(* nonzero, whatever its opcode and error fields; with done = 0 it decodes  *)
(* as NextErr(error field) when the opcode is -1 and as NextOk(opcode)      *)
(* otherwise; the 9 bytes are consumed.                                     *)
C3_HeaderRule ==
    (pc = "done" /\ call.op = "MultiHeader" /\ Len(input) >= 9) =>
        /\ result.kind = "Ok"
        /\ result.rest = Drop(input, 9)
        /\ result.val =
              IF FrameDone(input) # 0 THEN [kind |-> "Done"]
              ELSE IF FrameOpcode(input) = -1
                   THEN [kind |-> "NextErr", err |-> FrameErr(input)]
                   ELSE [kind |-> "NextOk", opcode |-> FrameOpcode(input)]

C3_Witness ==
    /\ pc = "done" /\ call.op = "MultiHeader" /\ Len(input) >= 9
    /\ FrameDone(input) # 0 /\ FrameOpcode(input) = -1 /\ FrameErr(input) # 0
    /\ result.kind = "Ok" /\ result.val.kind = "Done"

(* C4: in the loop of the Multi arm a frame with done = 0 and opcode = -1   *)
(* appends a failed entry carrying the error field and consumes the 9-byte  *)
(* frame and exactly the 4 bytes after it, so the next frame is read right  *)
(* after the padding; a closing frame and a succeeded frame consume no      *)
(* padding (the nested reply is decoded right after the frame).  A failed   *)
(* entry followed by a succeeded Delete and the closing frame decodes to    *)
(* those two entries.                                                       *)
C4_PaddingSlot ==
    /\ [][(pc = "multi" /\ Len(reader) >= 9) =>
            /\ (FrameDone(reader) = 0 /\ FrameOpcode(reader) = -1 /\ Len(reader) >= 13) =>
                  /\ pc' = "multi"
                  /\ reader' = Drop(reader, 13)
                  /\ stack' = Push(stack, EntryErr(FrameErr(reader)))
            /\ FrameDone(reader) # 0 => reader' = Drop(reader, 9)
            /\ (FrameDone(reader) = 0 /\ FrameOpcode(reader) \in {Delete, Check, Multi}) =>
                  reader' = Drop(reader, 9)
            /\ (/\ FrameDone(reader) = 0
                /\ FrameOpcode(reader) \in Supported \ {Multi}
                /\ ParseLeaf(FrameOpcode(reader), Drop(reader, 9), NoFault).kind = "Ok"
                /\ pc' = "multi") =>
                  reader' = ParseLeaf(FrameOpcode(reader), Drop(reader, 9), NoFault).rest
         ]_vars
    /\ []((/\ pc = "done" /\ call = ParseMulti
           /\ input = WriteFrame(-1, 0, -101) \o WriteI32(-101)
                      \o WriteFrame(Delete, 0, 0) \o Terminator) =>
            result = Ok([tag |-> "Multi",
                         responses |-> <<EntryErr(-101), EntryOk([tag |-> "Empty"])>>],
                        <<>>))

C4_Witness ==
    /\ pc = "multi" /\ call = ParseMulti
    /\ stack = << <<EntryErr(-101)>> >>
    /\ reader = Drop(input, 13)
    /\ Len(reader) >= 9 /\ FrameOpcode(reader) = Delete /\ FrameDone(reader) = 0

(* C5: decoding a well-formed batch succeeds with one entry per frame       *)
(* before the closing one, in the order read: a failed entry is an error    *)
(* entry at its place, a succeeded entry the nested Response at its place,  *)
(* and the whole input is consumed.                                         *)
C5_BatchInOrder ==
    (pc = "done" /\ call = ParseMulti /\ input \in WellFormedWire) =>
        \E b \in WellFormedBatches :
            /\ b[1] = input
            /\ result = Ok([tag |-> "Multi", responses |-> b[2]], <<>>)

C5_Witness ==
    /\ pc = "done" /\ call = ParseMulti
    /\ input = WriteBatch(<<SucceededCreate, Failed(-101), SucceededDelete>>)
    /\ result.kind = "Ok"
    /\ result.val.responses =
          <<EntryOk([tag |-> "String", string |-> <<47, 97>>]), EntryErr(-101),
            EntryOk([tag |-> "Empty"])>>

(* C6: read_buffer on an input that holds the length prefix L and R more    *)
(* bytes: with n = max(L, 0), if n <= R the result is exactly the next n    *)
(* bytes (the empty blob for a negative L) and the reader has advanced by   *)
(* 4 + n; if n > R the result is a failure.                                 *)
C6_ReadBuffer ==
    (pc = "done" /\ call.op = "read_buffer" /\ Len(input) >= 4) =>
        LET L == FrameOpcode(input)
            R == Len(input) - 4
            n == IF L < 0 THEN 0 ELSE L
        IN  IF n <= R
            THEN /\ result = Ok(SubSeq(input, 5, 4 + n), Drop(input, 4 + n))
                 /\ reader = Drop(input, 4 + n)
            ELSE result.kind = "Err"

C6_Witness ==
    /\ pc = "done" /\ call.op = "read_buffer"
    /\ Len(input) > 4 /\ FrameOpcode(input) = -5
    /\ result.kind = "Ok" /\ result.val = <<>> /\ Len(reader) = Len(input) - 4

(* C7: when the decoding of a batch stops after entries were accumulated,   *)
(* because a later frame, padding slot or nested entry cannot be decoded,   *)
(* parse returns a failure and none of the accumulated entries.             *)
C7_LaterFailureIsReturned ==
    [][(/\ pc = "multi" /\ stack[1] # <<>>
        /\ pc' = "done" /\ result'.kind # "Ok") =>
            (result'.kind = "Err" /\ stack' = <<>>)]_vars

(* C8: Vec<String> and Vec<Acl> decoding with a negative count gives the    *)
(* empty sequence and consumes only the 4 bytes of the count.               *)
C8_NegativeCountIsEmpty ==
    (/\ pc = "done" /\ call.op \in {"VecString", "VecAcl"}
     /\ Len(input) >= 4 /\ FrameOpcode(input) < 0) =>
        result = Ok(<<>>, Drop(input, 4))

(* C9, as claimed: a Stat that decodes has consumed the width of eight      *)
(* 64-bit and three 32-bit fields, and a written record decodes to itself.  *)
C9_EightWideFields ==
    (pc = "done" /\ call.op = "Stat" /\ result.kind = "Ok") =>
        /\ Len(input) - Len(reader) = 8 * 8 + 3 * 4
        /\ \A s \in StatSamples : Take(input, Len(WriteStat(s))) = WriteStat(s)
                                    => result.val = s

(* C9, amended: Stat decoding reads the eleven fields in the order czxid,   *)
(* mzxid, ctime, mtime, version, cversion, aversion, ephemeral_owner,       *)
(* data_length, num_children, pzxid, six of them 64-bit (czxid, mzxid,      *)
(* ctime, mtime, ephemeral_owner, pzxid) and five 32-bit, with no padding:  *)
(* a record written that way decodes to exactly its field values and the    *)
(* reader advances by exactly 6*8 + 5*4 = 68 bytes.                         *)
C9_StatRoundTrip ==
    \A s \in StatSamples : \A t \in {<<>>, <<7>>} :
        (pc = "done" /\ call.op = "Stat" /\ input = WriteStat(s) \o t) =>
            /\ result = Ok(s, t)
            /\ Len(input) - Len(reader) = 6 * 8 + 5 * 4

C9_Witness ==
    /\ pc = "done" /\ call.op = "Stat"
    /\ result.kind = "Ok" /\ result.val.version = -1 /\ result.val.cversion = 2147483647
    /\ reader = <<7>> /\ Len(input) = 69

(* C10: the decoding of a batch ends: each iteration of the loop consumes   *)
(* at least the 9 bytes of a frame or ends the call, the loop is never      *)
(* stuck, and a call that did not come to its closing frame ends in a       *)
(* decode failure.                                                          *)
C10_EndsInAFailure ==
    /\ [][pc = "multi" => (pc' = "done" \/ Len(reader') + 9 <= Len(reader))]_vars
    /\ [](pc = "multi" =>
            \A env \in Envs : MultiIter(reader, stack, env).pc \in {"multi", "done"})
    /\ []((pc = "done" /\ call = ParseMulti /\ result.kind # "Ok") =>
            result.kind = "Err")

\* What of C10 holds of the code.  Every iteration either ends the call or
\* leaves at least 9 bytes fewer to read, so the loop runs at most
\* Len(input) \div 9 times; the call succeeds only on a closing frame.
BatchProgress ==
    [][pc = "multi" =>
        \/ pc' = "done" /\ (result'.kind = "Ok" => /\ Len(reader) >= 9
                                                   /\ FrameDone(reader) # 0
                                                   /\ reader' = Drop(reader, 9))
        \/ pc' = "multi" /\ Len(reader') + 9 <= Len(reader)]_vars

\* The loop is never stuck: inside it the next iteration is always defined.
NeverStuck ==
    pc = "multi" => \A env \in Envs : MultiIter(reader, stack, env).pc \in {"multi", "done"}

====
